---- MODULE Spec2Model ----
(***************************************************************************)
(* The in-page content editor of src/index.tsx: the Content Store          *)
(* (App.content), the edit session (App.isEditMode, App.editingItem), the  *)
(* Editor Dialog's scratch value (EditModal.value) with its pending        *)
(* FileReader reads, and the routed page (AppContent.currentPage).         *)
(*                                                                         *)
(* A JavaScript string is a sequence of tokens; the token "\n" is the line *)
(* break, the empty string is << >>.  null and undefined are one-element   *)
(* sequences whose element is no token of any string.                      *)
(***************************************************************************)
EXTENDS Naturals, Sequences, FiniteSets

\* ---------------------------------------------------------------- bounds
\* at most this many FileReader reads are in flight at once
MaxPending == 2

\* ---------------------------------------------------------------- values
Null == <<"null">>
Undefined == <<"undefined">>

\* DEFAULT_IMAGES.hero / DEFAULT_IMAGES.exterior
DEFAULT_IMAGES_hero == <<"https://loremflickr.com/1600/900/architect,man">>
DEFAULT_IMAGES_exterior == <<"https://loremflickr.com/1600/900/apartment,building">>
\* defaultText of the hero_title slot, a two-line text (the Korean lines are
\* romanised here)
HeroTitleDefault == <<"Dongdaegu-ui mirae,", "\n", "jeonmunga-ui siseon-euro seontaekhada">>
\* defaultText of the profile_name slot (romanised)
ProfileNameDefault == <<"Jeong Se-dong bujang">>

\* the pages of the router
Pages == {"main", "analysis", "investment", "profile", "contact"}

\* the editable slots that are modelled: call site, key, default, kind
Slots ==
  { [site |-> "hero", id |-> "hero_img", default |-> DEFAULT_IMAGES_hero,
     type |-> "image", page |-> "main"],
    [site |-> "EditableImage", id |-> "exterior_img", default |-> DEFAULT_IMAGES_exterior,
     type |-> "image", page |-> "main"],
    [site |-> "EditableText", id |-> "hero_title", default |-> HeroTitleDefault,
     type |-> "text", page |-> "main"],
    [site |-> "EditableText", id |-> "profile_name", default |-> ProfileNameDefault,
     type |-> "text", page |-> "profile"] }

Keys == { s.id : s \in Slots }

\* what the operator can type into the textarea (line breaks allowed)
TextInputs == { << >>, <<"A", "\n", "B">> }
\* what the operator can type into the single-line URL field
UrlInputs == { << >>, <<"not-a-url">> }

\* the local files the operator can pick; NoFile is a dismissed file chooser
Files == {"a.png"}
NoFile == "none"
\* two files that differ, for reads that overtake each other
TwoFiles == {"a.png", "b.png"}

\* reader.result after readAsDataURL: the data URI, or null when the read failed
ReaderResult(file, ok) == IF ok THEN <<"data:image/png;base64,", file>> ELSE Null

\* ---------------------------------------------------------------- JavaScript
\* JavaScript truthiness of a string | null | undefined
Truthy(v) == v # Undefined /\ v # Null /\ v # << >>

\* a || b
Or(a, b) == IF Truthy(a) THEN a ELSE b

\* content[id] of a Record<string, string>
Lookup(store, id) == IF id \in DOMAIN store THEN store[id] ELSE Undefined

\* the empty Record, {}
EmptyContent == [k \in {} |-> << >>]

\* ---------------------------------------------------------------- state
VARIABLES
  isEditMode,    \* App: useState(false)
  content,       \* App: useState<Record<string,string>>({})
  editingItem,   \* App: useState<EditItem | null>(null)
  value,         \* EditModal: useState(initialValue), the scratch value as committed
  queued,        \* EditModal: what the setValue calls made outside a click or key
                 \* event (the effect's, a reader's) have queued and React has not
                 \* rendered yet: << >>, or <<v>> with v the value of the last call
  pending,       \* files of the FileReaders started and not yet ended, oldest first
  currentPage,   \* AppContent: useState<Page>('main')
  rendered,      \* what each slot shows after the last render (Undefined: not mounted)
  previewSrc,    \* EditModal: the src of the preview <img> element (Undefined: no element)
  last,          \* history: the handler that ran last
  saved,         \* history: per key, the value of the last Save since the last reset
  openStore,     \* history: the Content Store when openEditor was last called
  stale,         \* history: how many of the oldest pending reads were started in an
                 \* edit session that has since been closed or replaced
  origin         \* history: the call that queued what is in queued

vars == <<isEditMode, content, editingItem, value, queued, pending, currentPage,
          rendered, previewSrc, last, saved, openStore, stale, origin>>

\* editingItem = null
NoItem == [id |-> "-", value |-> Null, type |-> "-"]

\* ---------------------------------------------------------------- rendering
\* variant: the fallback to the call-site default is left out
Resolve_NoDefault(store, slot) == Or(Lookup(store, slot.id), << >>)

\* variant: the default is taken for a missing or null override only (??)
Resolve_Nullish(store, slot) ==
  IF Lookup(store, slot.id) \in {Undefined, Null} THEN slot.default ELSE Lookup(store, slot.id)

\* EditableText / EditableImage / MainPage: content[id] || default
Resolve(store, slot) == Or(Lookup(store, slot.id), slot.default)

\* the slot of a key
SlotOf == [id \in Keys |-> CHOOSE s \in Slots : s.id = id]

\* AppContent.renderPage: the slots of the routed page are mounted and show
\* their resolved value
Render(store, page) ==
  [id \in Keys |-> IF SlotOf[id].page = page THEN Resolve(store, SlotOf[id]) ELSE Undefined]

\* EditModal's preview: <img src={value || 'about:blank'} onError=...>
AboutBlank == <<"about:blank">>
Placeholder == <<"https://placehold.co/600x400?text=Invalid+Image+URL">>
PreviewProp(scratch) == Or(scratch, AboutBlank)
HasPreview(item) == item # NoItem /\ item.type = "image"

\* the preview element after a render: it exists in an image dialog only, gets
\* its src prop when it is mounted, and afterwards only when the prop changes
PreviewAfterRender ==
  IF ~HasPreview(editingItem') THEN Undefined
  ELSE IF ~HasPreview(editingItem) \/ PreviewProp(value') # PreviewProp(value)
       THEN PreviewProp(value')
       ELSE previewSrc

\* every state change is followed by a render
Rerender ==
  /\ rendered' = Render(content', currentPage')
  /\ previewSrc' = PreviewAfterRender

\* String.prototype.split('\n'): the pieces between the line breaks, one piece
\* more than there are line breaks
RECURSIVE Split(_)
Split(text) ==
  IF \A i \in 1..Len(text) : text[i] # "\n"
  THEN <<text>>
  ELSE LET i == CHOOSE j \in 1..Len(text) :
                  text[j] = "\n" /\ \A k \in 1..(j - 1) : text[k] # "\n"
       IN <<SubSeq(text, 1, i - 1)>> \o Split(SubSeq(text, i + 1, Len(text)))

\* variant: a <br /> follows every line, the last one too
TextFragments_BrAfterEach(currentText) ==
  [i \in 1..Len(Split(currentText)) |-> [line |-> Split(currentText)[i], br |-> TRUE]]

\* EditableText's children: one fragment per line, {line} followed by <br />
\* when i < length - 1 (i counted from 0)
TextFragments(currentText) ==
  [i \in 1..Len(Split(currentText)) |->
     [line |-> Split(currentText)[i], br |-> (i - 1) < Len(Split(currentText)) - 1]]

\* the text the fragments put on the page, a <br /> read as a line break
RECURSIVE ShownText(_)
ShownText(fragments) ==
  IF fragments = << >> THEN << >>
  ELSE Head(fragments).line \o (IF Head(fragments).br THEN <<"\n">> ELSE << >>)
       \o ShownText(Tail(fragments))

\* App's props for EditModal
IsOpen(item) == item # NoItem
InitialValue(item) == IF item = NoItem THEN << >> ELSE Or(item.value, << >>)
ModalType(item) == IF item = NoItem THEN "text" ELSE item.type

\* EditModal's setValue called outside a click or key event: the update is
\* queued and rendered in a later task (RenderQueued).  Updates are rendered in
\* the order of the calls, so the last call decides the value; with nothing
\* queued, a call with the value that is there already queues nothing.
Enqueue(v, scratch, queue) == IF queue = << >> /\ v = scratch THEN << >> ELSE <<v>>

\* the deps of EditModal's effect, [initialValue, isOpen], differ between two renders
DepsChanged(oldItem, newItem) ==
  InitialValue(newItem) # InitialValue(oldItem) \/ IsOpen(newItem) # IsOpen(oldItem)

\* EditModal: useEffect(() => setValue(initialValue), [initialValue, isOpen]).
\* The effect runs in the commit of the render that follows a change of
\* editingItem, when one of its deps changed, and calls setValue there.
SeedQueue(oldItem, newItem, scratch, queue) ==
  IF DepsChanged(oldItem, newItem) THEN Enqueue(InitialValue(newItem), scratch, queue)
  ELSE queue

\* variant: the previous overrides are not spread into the new Record
UpdateContent_NoSpread(prev, key, v) == [k \in {key} |-> v]

\* variant: overrides that are empty strings are dropped while spreading
UpdateContent_PrunesEmpty(prev, key, v) ==
  [k \in {j \in DOMAIN prev : prev[j] # << >>} \cup {key} |-> IF k = key THEN v ELSE prev[k]]

\* App.updateContent: setContent(prev => ({ ...prev, [key]: value }))
UpdateContent(prev, key, v) ==
  [k \in (DOMAIN prev) \cup {key} |-> IF k = key THEN v ELSE prev[k]]

\* ---------------------------------------------------------------- history
\* op: the handler; id: the key it was about (for a read: its outcome);
\* pre: what held just before it ran
Op(op, id, pre) == [op |-> op, id |-> id, pre |-> pre]

\* the end of a read; pos: "newest" when the read ending is the one started
\* last and a read started before it in the same edit session is still pending
ReadOp(outcome, pre, pos) == [op |-> "read", id |-> outcome, pre |-> pre, pos |-> pos]

\* the call that queued an update: by is "seed" for the effect, "loaded" or
\* "failed" for a reader; pre and pos are those of the read's end
Origin(by, pre, pos) == [by |-> by, pre |-> pre, pos |-> pos]
NoOrigin == Origin("-", "-", "-")

\* the origin after the effect of a change of editingItem
SeedOrigin(oldItem, newItem, queueAfter, before) ==
  IF queueAfter = << >> THEN NoOrigin
  ELSE IF DepsChanged(oldItem, newItem) THEN Origin("seed", "-", "-") ELSE before

\* the render of a queued update; id, pre, pos: those of its origin
FlushOp(from) == [op |-> "flush", id |-> from.by, pre |-> from.pre, pos |-> from.pos]

\* openStore is kept while the dialog is open and through the step that closes it
KeepOpenStore == openStore' = IF IsOpen(editingItem) THEN openStore ELSE EmptyContent

\* ---------------------------------------------------------------- Init
Init ==
  /\ isEditMode = FALSE
  /\ content = EmptyContent
  /\ editingItem = NoItem
  /\ value = << >>
  /\ queued = << >>
  /\ pending = << >>
  /\ currentPage = "main"
  /\ rendered = Render(EmptyContent, "main")
  /\ previewSrc = Undefined
  /\ last = Op("init", "-", "-")
  /\ saved = EmptyContent
  /\ openStore = EmptyContent
  /\ stale = 0
  /\ origin = NoOrigin

\* ---------------------------------------------------------------- actions
\* variant: leaving edit mode also closes the dialog
ToggleEditMode_ClosesDialog ==
  /\ isEditMode' = ~isEditMode
  /\ editingItem' = IF isEditMode THEN NoItem ELSE editingItem
  /\ value' = value
  /\ queued' = SeedQueue(editingItem, editingItem', value, queued)
  /\ origin' = SeedOrigin(editingItem, editingItem', queued', origin)
  /\ last' = Op("toggle", "-", IF IsOpen(editingItem) THEN "open" ELSE "closed")
  /\ KeepOpenStore
  /\ UNCHANGED <<content, pending, currentPage, saved, stale>>
  /\ Rerender

\* toggleEditMode: () => setIsEditMode(!isEditMode)
ToggleEditMode ==
  /\ isEditMode' = ~isEditMode
  /\ last' = Op("toggle", "-", IF IsOpen(editingItem) THEN "open" ELSE "closed")
  /\ KeepOpenStore
  /\ UNCHANGED <<queued, origin, content, editingItem, value, pending, currentPage, saved, stale>>
  /\ Rerender

\* variant: the confirmation is asked for but the store is not cleared
ResetContent_NoClear(confirmed) ==
  /\ isEditMode
  /\ content' = content
  /\ saved' = IF confirmed THEN EmptyContent ELSE saved
  /\ last' = Op(IF confirmed THEN "resetYes" ELSE "resetNo", "-",
                IF content = EmptyContent THEN "empty" ELSE "overridden")
  /\ KeepOpenStore
  /\ UNCHANGED <<queued, origin, isEditMode, editingItem, value, pending, currentPage, stale>>
  /\ Rerender

\* variant: the answer to the confirmation is ignored
ResetContent_IgnoresAnswer(confirmed) ==
  /\ isEditMode
  /\ content' = EmptyContent
  /\ saved' = EmptyContent
  /\ last' = Op(IF confirmed THEN "resetYes" ELSE "resetNo", "-",
                IF content = EmptyContent THEN "empty" ELSE "overridden")
  /\ KeepOpenStore
  /\ UNCHANGED <<queued, origin, isEditMode, editingItem, value, pending, currentPage, stale>>
  /\ Rerender

\* variant: a confirmed reset also closes the dialog
ResetContent_ClosesDialog(confirmed) ==
  /\ isEditMode
  /\ content' = IF confirmed THEN EmptyContent ELSE content
  /\ saved' = IF confirmed THEN EmptyContent ELSE saved
  /\ editingItem' = IF confirmed THEN NoItem ELSE editingItem
  /\ value' = value
  /\ queued' = SeedQueue(editingItem, editingItem', value, queued)
  /\ origin' = SeedOrigin(editingItem, editingItem', queued', origin)
  /\ last' = Op(IF confirmed THEN "resetYes" ELSE "resetNo", "-",
                IF content = EmptyContent THEN "empty" ELSE "overridden")
  /\ KeepOpenStore
  /\ UNCHANGED <<isEditMode, pending, currentPage, stale>>
  /\ Rerender

\* App.resetContent, behind the reset button that is rendered in edit mode;
\* confirmed is the operator's answer to window.confirm
ResetContent(confirmed) ==
  /\ isEditMode
  /\ content' = IF confirmed THEN EmptyContent ELSE content
  /\ saved' = IF confirmed THEN EmptyContent ELSE saved
  /\ last' = Op(IF confirmed THEN "resetYes" ELSE "resetNo", "-",
                IF content = EmptyContent THEN "empty" ELSE "overridden")
  /\ KeepOpenStore
  /\ UNCHANGED <<queued, origin, isEditMode, editingItem, value, pending, currentPage, stale>>
  /\ Rerender

\* what held when openEditor was called for id: no dialog, a dialog for the
\* same key, or a dialog for another key
OpenPre(id) == IF ~IsOpen(editingItem) THEN "closed"
               ELSE IF editingItem.id = id THEN "same" ELSE "other"

\* variant: an edit that is still open is committed before the new one starts
OpenEditor_CommitsFirst(id, initialValue, type) ==
  /\ editingItem' = [id |-> id, value |-> initialValue, type |-> type]
  /\ value' = value
  /\ queued' = SeedQueue(editingItem, editingItem', value, queued)
  /\ origin' = SeedOrigin(editingItem, editingItem', queued', origin)
  /\ content' = IF IsOpen(editingItem)
                THEN UpdateContent(content, editingItem.id, value) ELSE content
  /\ openStore' = content
  /\ stale' = IF OpenPre(id) = "same" THEN stale ELSE Len(pending)
  /\ UNCHANGED <<isEditMode, pending, currentPage, saved>>
  /\ Rerender

\* App.openEditor: setEditingItem({ id, value: initialValue, type })
OpenEditor(id, initialValue, type) ==
  /\ editingItem' = [id |-> id, value |-> initialValue, type |-> type]
  /\ value' = value
  /\ queued' = SeedQueue(editingItem, editingItem', value, queued)
  /\ origin' = SeedOrigin(editingItem, editingItem', queued', origin)
  /\ openStore' = content
  /\ stale' = IF OpenPre(id) = "same" THEN stale ELSE Len(pending)
  /\ UNCHANGED <<isEditMode, content, pending, currentPage, saved>>
  /\ Rerender

\* variant: the editor is opened with the call-site default
HandleClick_PassesDefault(slot) ==
  /\ slot.site # "hero"
  /\ slot.page = currentPage
  /\ IF ~isEditMode
     THEN /\ last' = Op("clickOff", "-", IF IsOpen(editingItem) THEN "open" ELSE "closed")
          /\ KeepOpenStore
          /\ UNCHANGED <<queued, origin, isEditMode, content, editingItem, value, pending,
                         currentPage, saved, stale>>
          /\ Rerender
     ELSE /\ OpenEditor(slot.id, slot.default, slot.type)
          /\ last' = Op("open", slot.id, OpenPre(slot.id))

\* variant: the handler does not return early when edit mode is off
HandleClick_NoGuard(slot) ==
  /\ slot.site # "hero"
  /\ slot.page = currentPage
  /\ OpenEditor(slot.id, Resolve(content, slot), slot.type)
  /\ last' = Op("open", slot.id, OpenPre(slot.id))

\* EditableText.handleClick / EditableImage.handleClick on a mounted slot
HandleClick(slot) ==
  /\ slot.site # "hero"
  /\ slot.page = currentPage
  /\ IF ~isEditMode
     THEN /\ last' = Op("clickOff", "-", IF IsOpen(editingItem) THEN "open" ELSE "closed")
          /\ KeepOpenStore
          /\ UNCHANGED <<queued, origin, isEditMode, content, editingItem, value, pending,
                         currentPage, saved, stale>>
          /\ Rerender
     ELSE /\ OpenEditor(slot.id, Resolve(content, slot), slot.type)
          /\ last' = Op("open", slot.id, OpenPre(slot.id))

\* variant: the hero button is rendered whether or not edit mode is on
HeroButtonClick_AlwaysRendered(slot) ==
  /\ slot.site = "hero"
  /\ currentPage = "main"
  /\ OpenEditor("hero_img", Or(Lookup(content, "hero_img"), DEFAULT_IMAGES_hero), "image")
  /\ last' = Op("open", "hero_img", OpenPre("hero_img"))

\* MainPage: the hero background button, rendered only in edit mode
HeroButtonClick(slot) ==
  /\ slot.site = "hero"
  /\ currentPage = "main"
  /\ isEditMode
  /\ OpenEditor("hero_img", Or(Lookup(content, "hero_img"), DEFAULT_IMAGES_hero), "image")
  /\ last' = Op("open", "hero_img", OpenPre("hero_img"))

\* EditModal: onChange={(e) => setValue(e.target.value)} of the textarea or URL field
OnChange(text) ==
  /\ IsOpen(editingItem)
  /\ text \in (IF ModalType(editingItem) = "text" THEN TextInputs ELSE UrlInputs)
  /\ value' = text
  /\ queued' = << >>
  /\ origin' = NoOrigin
  /\ last' = Op("type", "-", "-")
  /\ UNCHANGED <<isEditMode, content, editingItem, pending, currentPage, saved,
                 openStore, stale>>
  /\ Rerender

\* EditModal.handleFileChange: start a FileReader when a file was chosen
HandleFileChange(file) ==
  /\ IsOpen(editingItem)
  /\ ModalType(editingItem) = "image"
  /\ Len(pending) < MaxPending
  /\ pending' = IF file # NoFile THEN Append(pending, file) ELSE pending
  /\ last' = Op("file", "-", "-")
  /\ UNCHANGED <<queued, origin, isEditMode, content, editingItem, value, currentPage, saved,
                 openStore, stale>>
  /\ Rerender

\* what the end of the i-th pending read is recorded as
ReadOutcome(ok) == IF ok THEN "loaded" ELSE "failed"
ReadPre(i) == IF i <= stale THEN "stale" ELSE "live"
ReadPos(i) == IF i = Len(pending) /\ i - 1 > stale THEN "newest" ELSE "-"

\* variant: only the read started last may set the scratch value
OnLoadEnd_NewestOnly(i, ok) ==
  /\ i \in 1..Len(pending)
  /\ queued' = IF i = Len(pending) THEN Enqueue(ReaderResult(pending[i], ok), value, queued)
               ELSE queued
  /\ origin' = IF queued' = << >> THEN NoOrigin
               ELSE IF i = Len(pending) THEN Origin(ReadOutcome(ok), ReadPre(i), ReadPos(i))
               ELSE origin
  /\ pending' = SubSeq(pending, 1, i - 1) \o SubSeq(pending, i + 1, Len(pending))
  /\ stale' = IF i <= stale THEN stale - 1 ELSE stale
  /\ last' = ReadOp(ReadOutcome(ok), ReadPre(i), ReadPos(i))
  /\ KeepOpenStore
  /\ UNCHANGED <<isEditMode, content, editingItem, value, currentPage, saved,
                 rendered, previewSrc>>

\* reader.onloadend = () => setValue(reader.result): the i-th pending read
\* ends; the handler queues the update and returns, nothing is rendered
OnLoadEnd(i, ok) ==
  /\ i \in 1..Len(pending)
  /\ queued' = Enqueue(ReaderResult(pending[i], ok), value, queued)
  /\ origin' = IF queued' = << >> THEN NoOrigin
               ELSE Origin(ReadOutcome(ok), ReadPre(i), ReadPos(i))
  /\ pending' = SubSeq(pending, 1, i - 1) \o SubSeq(pending, i + 1, Len(pending))
  /\ stale' = IF i <= stale THEN stale - 1 ELSE stale
  /\ last' = ReadOp(ReadOutcome(ok), ReadPre(i), ReadPos(i))
  /\ KeepOpenStore
  /\ UNCHANGED <<isEditMode, content, editingItem, value, currentPage, saved,
                 rendered, previewSrc>>

\* variant: Save waits until no file read is pending
HandleSaveEdit_WaitsForRead ==
  /\ IsOpen(editingItem)
  /\ pending = << >>
  /\ content' = UpdateContent(content, editingItem.id, value)
  /\ editingItem' = NoItem
  /\ value' = value
  /\ queued' = SeedQueue(editingItem, editingItem', value, queued)
  /\ origin' = SeedOrigin(editingItem, editingItem', queued', origin)
  /\ saved' = [k \in (DOMAIN saved) \cup {editingItem.id} |->
                 IF k = editingItem.id THEN value ELSE saved[k]]
  /\ stale' = Len(pending)
  /\ last' = Op("save", editingItem.id,
                IF value = InitialValue(editingItem) THEN "seeded" ELSE "changed")
  /\ openStore' = EmptyContent
  /\ UNCHANGED <<isEditMode, pending, currentPage>>
  /\ Rerender

\* variant: Save stores the value the editor was opened with, not the scratch value
HandleSaveEdit_SavesInitial ==
  /\ IsOpen(editingItem)
  /\ content' = UpdateContent(content, editingItem.id, editingItem.value)
  /\ editingItem' = NoItem
  /\ value' = value
  /\ queued' = SeedQueue(editingItem, editingItem', value, queued)
  /\ origin' = SeedOrigin(editingItem, editingItem', queued', origin)
  /\ saved' = [k \in (DOMAIN saved) \cup {editingItem.id} |->
                 IF k = editingItem.id THEN value ELSE saved[k]]
  /\ stale' = Len(pending)
  /\ last' = Op("save", editingItem.id,
                IF value = InitialValue(editingItem) THEN "seeded" ELSE "changed")
  /\ openStore' = EmptyContent
  /\ UNCHANGED <<isEditMode, pending, currentPage>>
  /\ Rerender

\* App.handleSaveEdit, called by the Save button as onSave(value)
HandleSaveEdit ==
  /\ IsOpen(editingItem)
  /\ content' = UpdateContent(content, editingItem.id, value)
  /\ editingItem' = NoItem
  /\ value' = value
  /\ queued' = SeedQueue(editingItem, editingItem', value, queued)
  /\ origin' = SeedOrigin(editingItem, editingItem', queued', origin)
  /\ saved' = [k \in (DOMAIN saved) \cup {editingItem.id} |->
                 IF k = editingItem.id THEN value ELSE saved[k]]
  /\ stale' = Len(pending)
  /\ last' = Op("save", editingItem.id,
                IF value = InitialValue(editingItem) THEN "seeded" ELSE "changed")
  /\ openStore' = EmptyContent
  /\ UNCHANGED <<isEditMode, pending, currentPage>>
  /\ Rerender

\* variant: closing the dialog commits the scratch value
OnClose_Commits ==
  /\ IsOpen(editingItem)
  /\ content' = UpdateContent(content, editingItem.id, value)
  /\ editingItem' = NoItem
  /\ value' = value
  /\ queued' = SeedQueue(editingItem, editingItem', value, queued)
  /\ origin' = SeedOrigin(editingItem, editingItem', queued', origin)
  /\ stale' = Len(pending)
  /\ last' = Op("cancel", editingItem.id,
                IF value = InitialValue(editingItem) THEN "seeded" ELSE "changed")
  /\ UNCHANGED <<isEditMode, pending, currentPage, saved, openStore>>
  /\ Rerender

\* onClose={() => setEditingItem(null)}: the Cancel button and the X button
OnClose ==
  /\ IsOpen(editingItem)
  /\ editingItem' = NoItem
  /\ value' = value
  /\ queued' = SeedQueue(editingItem, editingItem', value, queued)
  /\ origin' = SeedOrigin(editingItem, editingItem', queued', origin)
  /\ stale' = Len(pending)
  /\ last' = Op("cancel", editingItem.id,
                IF value = InitialValue(editingItem) THEN "seeded" ELSE "changed")
  /\ UNCHANGED <<isEditMode, content, pending, currentPage, saved, openStore>>
  /\ Rerender

\* variant: the failed preview also empties the URL field
OnPreviewError_ClearsScratch ==
  /\ HasPreview(editingItem)
  /\ previewSrc' = Placeholder
  /\ value' = << >>
  /\ queued' = << >>
  /\ origin' = NoOrigin
  /\ last' = Op("previewError", editingItem.id, IF previewSrc = Placeholder THEN "placeholder" ELSE "src")
  /\ UNCHANGED <<isEditMode, content, editingItem, pending, currentPage,
                 rendered, saved, openStore, stale>>

\* the scheduler task in which React renders the queued updates of the scratch
\* value: it becomes the value of the last setValue call that was queued
RenderQueued ==
  /\ queued # << >>
  /\ value' = queued[1]
  /\ queued' = << >>
  /\ origin' = NoOrigin
  /\ last' = FlushOp(origin)
  /\ KeepOpenStore
  /\ UNCHANGED <<isEditMode, content, editingItem, pending, currentPage, saved, stale>>
  /\ Rerender

\* the preview's onError: the image at the element's src did not load, the
\* handler sets the element's src to the placeholder; no React state is set
OnPreviewError ==
  /\ HasPreview(editingItem)
  /\ previewSrc' = Placeholder
  /\ last' = Op("previewError", editingItem.id, IF previewSrc = Placeholder THEN "placeholder" ELSE "src")
  /\ UNCHANGED <<queued, origin, isEditMode, content, editingItem, value, pending, currentPage,
                 rendered, saved, openStore, stale>>

\* a click on the overlay outside the dialog box, or the Escape key: the
\* overlay <div> has no onClick and nothing listens for keydown, no handler runs
OutsideDismiss ==
  /\ IsOpen(editingItem)
  /\ last' = Op("dismiss", editingItem.id,
                IF value = InitialValue(editingItem) THEN "seeded" ELSE "changed")
  /\ UNCHANGED <<queued, origin, isEditMode, content, editingItem, value, pending, currentPage,
                 rendered, previewSrc, saved, openStore, stale>>

\* variant: a change of page closes the dialog
SetPage_ClosesDialog(p) ==
  /\ currentPage' = p
  /\ editingItem' = IF p = currentPage THEN editingItem ELSE NoItem
  /\ value' = value
  /\ queued' = SeedQueue(editingItem, editingItem', value, queued)
  /\ origin' = SeedOrigin(editingItem, editingItem', queued', origin)
  /\ last' = Op("nav", "-", IF p = currentPage THEN "same" ELSE "moved")
  /\ KeepOpenStore
  /\ UNCHANGED <<isEditMode, content, pending, saved, stale>>
  /\ Rerender

\* variant: the overrides do not survive a change of page
SetPage_DropsOverrides(p) ==
  /\ currentPage' = p
  /\ content' = IF p = currentPage THEN content ELSE EmptyContent
  /\ last' = Op("nav", "-", IF p = currentPage THEN "same" ELSE "moved")
  /\ KeepOpenStore
  /\ UNCHANGED <<queued, origin, isEditMode, editingItem, value, pending, saved, stale>>
  /\ Rerender

\* Header / Footer / MainPage buttons: setPage(p)
SetPage(p) ==
  /\ currentPage' = p
  /\ last' = Op("nav", "-", IF p = currentPage THEN "same" ELSE "moved")
  /\ KeepOpenStore
  /\ UNCHANGED <<queued, origin, isEditMode, content, editingItem, value, pending, saved, stale>>
  /\ Rerender

\* the session on the page the program starts on, with local file reads: the
\* hero button and the text slot are the click targets
Next ==
  \/ ToggleEditMode
  \/ \E confirmed \in BOOLEAN : ResetContent(confirmed)
  \/ \E slot \in Slots : slot.type = "text" /\ HandleClick(slot)
  \/ \E slot \in Slots : HeroButtonClick(slot)
  \/ \E text \in TextInputs \cup UrlInputs : OnChange(text)
  \/ \E file \in Files \cup {NoFile} : HandleFileChange(file)
  \/ \E i \in 1..MaxPending, ok \in BOOLEAN : OnLoadEnd(i, ok)
  \/ HandleSaveEdit
  \/ OnClose
  \/ RenderQueued

Spec == Init /\ [][Next]_vars

\* the router together with the editing session on the text slots, local file
\* reads left out
NextNav ==
  \/ ToggleEditMode
  \/ \E confirmed \in BOOLEAN : ResetContent(confirmed)
  \/ \E slot \in Slots : slot.type = "text" /\ HandleClick(slot)
  \/ \E text \in TextInputs : OnChange(text)
  \/ HandleSaveEdit
  \/ OnClose
  \/ RenderQueued
  \/ \E p \in Pages : SetPage(p)

SpecNav == Init /\ [][NextNav]_vars

\* the session on every slot of the page the program starts on, with what
\* happens around the open dialog: the preview failing to load, clicks outside
\* the dialog box and the Escape key; local file reads left out
NextDialog ==
  \/ ToggleEditMode
  \/ \E confirmed \in BOOLEAN : ResetContent(confirmed)
  \/ \E slot \in Slots : HandleClick(slot)
  \/ \E slot \in Slots : HeroButtonClick(slot)
  \/ \E text \in TextInputs \cup UrlInputs : OnChange(text)
  \/ HandleSaveEdit
  \/ OnClose
  \/ RenderQueued
  \/ OnPreviewError
  \/ OutsideDismiss

SpecDialog == Init /\ [][NextDialog]_vars

\* every kind of step together: the session on the image slot with the
\* router, local file reads and the preview failing to load
NextFrame ==
  \/ ToggleEditMode
  \/ \E confirmed \in BOOLEAN : ResetContent(confirmed)
  \/ \E slot \in Slots : slot.type = "image" /\ HandleClick(slot)
  \/ \E text \in UrlInputs : OnChange(text)
  \/ \E file \in Files \cup {NoFile} : HandleFileChange(file)
  \/ \E i \in 1..MaxPending, ok \in BOOLEAN : OnLoadEnd(i, ok)
  \/ HandleSaveEdit
  \/ OnClose
  \/ RenderQueued
  \/ OnPreviewError
  \/ \E p \in Pages : SetPage(p)

SpecFrame == Init /\ [][NextFrame]_vars

\* the image dialog of the hero background with reads of two different files
\* in flight
NextReads ==
  \/ ToggleEditMode
  \/ \E slot \in Slots : HeroButtonClick(slot)
  \/ \E text \in UrlInputs : OnChange(text)
  \/ \E file \in TwoFiles \cup {NoFile} : HandleFileChange(file)
  \/ \E i \in 1..MaxPending, ok \in BOOLEAN : OnLoadEnd(i, ok)
  \/ HandleSaveEdit
  \/ OnClose
  \/ RenderQueued

SpecReads == Init /\ [][NextReads]_vars

\* ================================================================ claims
\* the slot is part of the page that is routed
Mounted(slot) == slot.page = currentPage

\* ---------------------------------------------------------------- C1
\* C1 as stated: for every key k and every string v, once v was saved for k
\* every mounted slot reading k shows exactly v until the next Save of k or
\* a confirmed reset.
C1_AnySavedStringIsShown ==
  \A slot \in Slots :
    (Mounted(slot) /\ slot.id \in DOMAIN saved /\ saved[slot.id] # Null)
      => rendered[slot.id] = saved[slot.id]

\* C1 amended: the same for every non-empty string v (an empty string saved
\* for k resolves to the slot's default).
C1_SavedNonEmptyStringIsShown ==
  \A slot \in Slots :
    (Mounted(slot) /\ slot.id \in DOMAIN saved /\ Truthy(saved[slot.id]))
      => rendered[slot.id] = saved[slot.id]

\* a saved non-default value is still shown after a later edit of another key
\* was opened, changed and cancelled
C1_Witness ==
  \E slot \in Slots :
    /\ slot.id \in DOMAIN saved /\ Truthy(saved[slot.id])
    /\ saved[slot.id] # slot.default
    /\ rendered[slot.id] = saved[slot.id]
    /\ last.op = "cancel" /\ last.id # slot.id /\ last.pre = "changed"

\* ---------------------------------------------------------------- C2
\* C2: a mounted text slot, image slot or the hero background whose key has
\* no override shows exactly its call-site default.
C2_NoOverrideShowsDefault ==
  \A slot \in Slots :
    (Mounted(slot) /\ slot.id \notin DOMAIN content) => rendered[slot.id] = slot.default

\* one key is overridden and shows its override while the others show defaults
C2_Witness ==
  /\ Cardinality(DOMAIN content) = 1
  /\ \E slot \in Slots : slot.id \in DOMAIN content /\ rendered[slot.id] # slot.default
  /\ \A slot \in Slots :
       (Mounted(slot) /\ slot.id \notin DOMAIN content) => rendered[slot.id] = slot.default
  /\ \E slot \in Slots : Mounted(slot) /\ slot.id \notin DOMAIN content

\* ---------------------------------------------------------------- C3
\* C3: a confirmed reset leaves the Content Store without any override, and
\* every mounted slot whose key was overridden before shows its default again.
C3_ConfirmedResetClearsAll ==
  [][last'.op = "resetYes" =>
       /\ content' = EmptyContent
       /\ \A slot \in Slots :
            (slot.id \in DOMAIN content /\ slot.page = currentPage')
              => rendered'[slot.id] = slot.default]_vars

\* a reset was confirmed while overrides existed
C3_Witness ==
  /\ last.op = "resetYes" /\ last.pre = "overridden"
  /\ content = EmptyContent
  /\ \A slot \in Slots : Mounted(slot) => rendered[slot.id] = slot.default

\* ---------------------------------------------------------------- C4
\* C4: a Save with an ActiveEdit present writes the scratch value as the
\* override of exactly the key of the ActiveEdit current at that moment,
\* leaves every other override as it was, and leaves no ActiveEdit.
C4_CommitWritesActiveKey ==
  [][last'.op = "save" =>
       /\ IsOpen(editingItem)
       /\ last'.id = editingItem.id
       /\ DOMAIN content' = (DOMAIN content) \cup {editingItem.id}
       /\ content'[editingItem.id] = value
       /\ \A k \in (DOMAIN content) \ {editingItem.id} : content'[k] = content[k]
       /\ editingItem' = NoItem]_vars

\* a changed scratch value was saved next to an override of another key
C4_Witness ==
  /\ last.op = "save" /\ last.pre = "changed"
  /\ ~IsOpen(editingItem)
  /\ last.id \in DOMAIN content
  /\ Cardinality(DOMAIN content) >= 2

\* ---------------------------------------------------------------- C5
\* C5 as stated: after Cancel there is no ActiveEdit and the Content Store is
\* exactly the store from before the dialog was opened.
C5_CancelRestoresStoreAtOpen ==
  last.op = "cancel" => (~IsOpen(editingItem) /\ content = openStore)

\* C5 amended: Cancel removes the ActiveEdit and leaves the Content Store
\* exactly as it was immediately before the Cancel, whatever the scratch value;
\* that store is the one from before the dialog was opened unless a reset was
\* confirmed while the dialog was open.
C5_CancelLeavesStore ==
  [][last'.op = "cancel" =>
       /\ editingItem' = NoItem
       /\ content' = content
       /\ (content' = openStore' \/ content' = EmptyContent)]_vars

\* a dialog whose scratch value had been changed was cancelled over a non-empty store
C5_Witness ==
  /\ last.op = "cancel" /\ last.pre = "changed"
  /\ ~IsOpen(editingItem)
  /\ content # EmptyContent
  /\ content = openStore
\* ---------------------------------------------------------------- C6
\* C6: whenever the editor is opened for key k (from no dialog, or over a
\* dialog of another key), the scratch value is the current resolved value of
\* k and not something typed or loaded during an earlier edit.
C6_OpenSeedsResolvedValue ==
  (last.op = "open" /\ last.pre # "same" /\ queued = << >>) => value = rendered[last.id]

\* ---------------------------------------------------------------- C7
\* C7: the result of a file read that was started in an edit session which
\* has since been closed or replaced is discarded: neither the end of the read
\* nor the render of what it queued changes the scratch value of a dialog open
\* at that time or the Content Store.
C7_StaleReadIsDiscarded ==
  [][/\ ((last'.op = "read" /\ last'.pre = "stale") =>
           (content' = content /\ value' = value))
     /\ ((last'.op = "flush" /\ last'.pre = "stale") =>
           (content' = content /\ (IsOpen(editingItem) => value' = value)))]_vars

\* ---------------------------------------------------------------- C8
\* C8: while edit mode is disabled openEditor creates no ActiveEdit and opens
\* no dialog: a click on an editable slot then returns before it invokes
\* openEditor and changes nothing, the hero background button does not exist,
\* every invocation of openEditor happens in edit mode, and no step taken
\* while edit mode is disabled creates or replaces an ActiveEdit.
C8_NoEditorOpensOutsideEditMode ==
  [][/\ (last'.op = "clickOff" =>
           (~isEditMode /\ UNCHANGED <<editingItem, value, queued, content>>))
     /\ (last'.op = "open" => isEditMode)
     /\ (~isEditMode => (editingItem' = editingItem \/ editingItem' = NoItem))
     /\ (~isEditMode => ~ENABLED (\E slot \in Slots : HeroButtonClick(slot)))]_vars

\* a slot was clicked with edit mode off and there is no dialog
C8_Witness ==
  /\ last.op = "clickOff" /\ last.pre = "closed"
  /\ ~isEditMode
  /\ ~IsOpen(editingItem)

\* ---------------------------------------------------------------- C9
\* C9 as stated: every reachable state is ReadOnly, Editing or
\* EditingWithDialogOpen; an ActiveEdit is never present while edit mode is off.
C9_NoActiveEditOutsideEditMode == IsOpen(editingItem) => isEditMode

\* C9 amended: besides ReadOnly, Editing and EditingWithDialogOpen there is a
\* fourth state, edit mode off with the ActiveEdit still present; it is entered
\* only by toggling edit mode off while a dialog is open, and while in it the
\* ActiveEdit is not created or replaced, only kept or removed.
C9_DialogOutlivesEditModeOnlyByToggle ==
  [][(~isEditMode' /\ IsOpen(editingItem')) =>
       /\ editingItem' = editingItem
       /\ (isEditMode => last'.op = "toggle")]_vars

\* edit mode was toggled off under an open dialog
C9_Witness ==
  /\ ~isEditMode /\ IsOpen(editingItem)
  /\ last.op = "toggle" /\ last.pre = "open"

\* ---------------------------------------------------------------- C10
\* C10: there is one ActiveEdit at most, and openEditor called while a dialog
\* is open replaces it by the new key, value and kind; the first edit is not
\* saved (the Content Store is unchanged), for every open call in a row.
C10_OpenReplacesActiveEdit ==
  [][last'.op = "open" =>
       /\ \E slot \in Slots :
            /\ last'.id = slot.id
            /\ editingItem' = [id |-> slot.id, value |-> rendered[slot.id], type |-> slot.type]
       /\ content' = content
       /\ saved' = saved]_vars

\* the editor was opened for a key over the open dialog of another key
C10_Witness ==
  /\ last.op = "open" /\ last.pre = "other"
  /\ IsOpen(editingItem) /\ editingItem.id = last.id
  /\ content = openStore /\ content # EmptyContent
\* ---------------------------------------------------------------- C12
\* C12: when a file read started from the image dialog fails, the scratch
\* value of that dialog is left exactly as it was, at the end of the read and
\* when what the end of the read queued is rendered.
C12_FailedReadKeepsScratch ==
  [][(last'.op \in {"read", "flush"} /\ last'.id = "failed" /\ last'.pre = "live") =>
       value' = value]_vars

\* ---------------------------------------------------------------- C13
\* C13: a declined reset confirmation changes nothing: the Content Store, the
\* edit-mode flag, the ActiveEdit and its scratch value stay as they were.
C13_DeclinedResetChangesNothing ==
  [][last'.op = "resetNo" =>
       UNCHANGED <<content, isEditMode, editingItem, value, pending, currentPage>>]_vars

\* a reset was declined over a non-empty store with a dialog open
C13_Witness ==
  /\ last.op = "resetNo" /\ last.pre = "overridden"
  /\ content # EmptyContent
  /\ isEditMode /\ IsOpen(editingItem)

\* ---------------------------------------------------------------- C17
\* C17: a toggle negates the edit-mode flag and changes nothing else, also
\* when it turns edit mode off under an open dialog: the Content Store, the
\* ActiveEdit and the scratch value are the same after it.
C17_ToggleOnlyFlipsFlag ==
  [][last'.op = "toggle" =>
       /\ isEditMode' = ~isEditMode
       /\ UNCHANGED <<content, editingItem, value, pending, currentPage>>]_vars

\* edit mode was toggled off under a dialog whose scratch value had been changed
C17_Witness ==
  /\ last.op = "toggle" /\ last.pre = "open"
  /\ ~isEditMode /\ IsOpen(editingItem)
  /\ value # InitialValue(editingItem)
  /\ content # EmptyContent
\* ---------------------------------------------------------------- C16
\* C16 as stated: for every text value v saved for a text slot, the mounted
\* slot renders the lines of v split at each line break, with a line-break
\* element between consecutive lines and none after the last, so that the
\* rendered lines joined by line breaks give back v.
C16_SavedTextRendersItsLines ==
  \A slot \in Slots :
    (Mounted(slot) /\ slot.type = "text" /\ slot.id \in DOMAIN saved /\ saved[slot.id] # Null)
      => LET fragments == TextFragments(rendered[slot.id])
         IN /\ ShownText(fragments) = saved[slot.id]
            /\ \A i \in 1..Len(fragments) :
                 /\ \A j \in 1..Len(fragments[i].line) : fragments[i].line[j] # "\n"
                 /\ fragments[i].br = (i < Len(fragments))

\* C16 amended: for every non-empty text value v saved for a text slot, the
\* mounted slot renders the lines of v split at each line break, with a
\* line-break element between consecutive lines and none after the last, so
\* that the rendered lines joined by line breaks give back v; an empty v is
\* rendered as the lines of the slot's default.
C16_SavedNonEmptyTextRendersItsLines ==
  \A slot \in Slots :
    (Mounted(slot) /\ slot.type = "text" /\ slot.id \in DOMAIN saved)
      => LET v == IF Truthy(saved[slot.id]) THEN saved[slot.id] ELSE slot.default
             fragments == TextFragments(rendered[slot.id])
         IN /\ ShownText(fragments) = v
            /\ \A i \in 1..Len(fragments) :
                 /\ \A j \in 1..Len(fragments[i].line) : fragments[i].line[j] # "\n"
                 /\ fragments[i].br = (i < Len(fragments))

\* "A\nB" was saved for a text slot, which renders A, a line break, and B
C16_Witness ==
  \E slot \in Slots :
    /\ Mounted(slot) /\ slot.type = "text"
    /\ last.op = "save" /\ last.id = slot.id
    /\ saved[slot.id] = <<"A", "\n", "B">>
    /\ TextFragments(rendered[slot.id]) =
         <<[line |-> <<"A">>, br |-> TRUE], [line |-> <<"B">>, br |-> FALSE]>>

\* ---------------------------------------------------------------- C18
\* C18: a click on an editable slot or on the hero button opens the editor
\* only when edit mode is enabled, and then with that slot's key, its current
\* resolved value and its kind; a click with edit mode disabled changes
\* neither the ActiveEdit nor the Content Store.
C18_ClickOpensOnlyInEditMode ==
  [][/\ (last'.op = "open" =>
           /\ isEditMode
           /\ \E slot \in Slots :
                /\ Mounted(slot) /\ last'.id = slot.id
                /\ editingItem' = [id |-> slot.id,
                                   value |-> Or(Lookup(content, slot.id), slot.default),
                                   type |-> slot.type])
     /\ (last'.op = "clickOff" =>
           /\ ~isEditMode
           /\ UNCHANGED <<editingItem, value, content>>)]_vars

\* a slot whose key has a non-default override was clicked in edit mode and
\* its dialog carries the override
C18_Witness ==
  /\ last.op = "open" /\ last.pre = "closed"
  /\ isEditMode /\ IsOpen(editingItem)
  /\ editingItem.id \in DOMAIN content
  /\ editingItem.value = content[editingItem.id]
  /\ editingItem.value # SlotOf[editingItem.id].default
  /\ editingItem.type = SlotOf[editingItem.id].type

\* ---------------------------------------------------------------- C19
\* C19: when the editor is opened for a new key over the open dialog of
\* another key, the scratch value is the new key's value, also when that value
\* equals the value the previous key was opened with.
C19_ReplacingOpenReseedsScratch ==
  (last.op = "open" /\ last.pre = "other" /\ IsOpen(editingItem) /\ queued = << >>)
    => value = InitialValue(editingItem)
\* ---------------------------------------------------------------- C11
\* C11: in an open image dialog Save is enabled for every scratch string,
\* loadable or not and whether or not the preview fell back to the
\* placeholder; Save stores the scratch string as it is under the active key;
\* a preview that fails to load changes neither the scratch value nor the
\* Content Store.
C11_SaveIgnoresPreviewFailure ==
  /\ [](HasPreview(editingItem) => ENABLED HandleSaveEdit)
  /\ [][/\ ((last'.op = "save" /\ HasPreview(editingItem)) =>
               (editingItem.id \in DOMAIN content' /\ content'[editingItem.id] = value))
        /\ (last'.op = "previewError" =>
               UNCHANGED <<value, content, editingItem, isEditMode>>)]_vars

\* the scratch value is a string that is no image URL, its preview has fallen
\* back to the placeholder, and Save is enabled
C11_Witness ==
  /\ HasPreview(editingItem)
  /\ last.op = "previewError" /\ last.pre = "src"
  /\ value = <<"not-a-url">>
  /\ previewSrc = Placeholder
  /\ ENABLED HandleSaveEdit

\* ---------------------------------------------------------------- C14
\* C14: a click on the overlay outside the dialog box, or the Escape key, has
\* the effect of Cancel: the ActiveEdit is removed, the scratch value is
\* discarded and the Content Store is unchanged.
C14_OutsideDismissalCancels ==
  [][last'.op = "dismiss" =>
       /\ ~IsOpen(editingItem')
       /\ value' = << >>
       /\ content' = content]_vars
\* ---------------------------------------------------------------- C15
\* C15: the Content Store changes only in a Save step, which sets the active
\* key and leaves every other key as it was, and in a confirmed reset, which
\* empties it; a toggle, an open, a click with edit mode off, a cancel, a
\* scratch edit, choosing a file, the end of a file read, the render of a
\* queued scratch value, a preview that fails to load, a declined reset and a
\* page navigation leave it unchanged.
C15_StoreChangesOnlyBySaveOrReset ==
  [][/\ (content' # content =>
           \/ /\ last'.op = "save" /\ IsOpen(editingItem)
              /\ DOMAIN content' = (DOMAIN content) \cup {editingItem.id}
              /\ \A k \in (DOMAIN content) \ {editingItem.id} : content'[k] = content[k]
           \/ /\ last'.op = "resetYes"
              /\ content' = EmptyContent)
     /\ (last'.op \in {"toggle", "open", "clickOff", "cancel", "type", "file", "read",
                       "flush", "previewError", "resetNo", "nav"} => content' = content)]_vars

\* the page was changed while the store holds an override, a dialog is open
\* and a file read is pending
C15_Witness ==
  /\ last.op = "nav" /\ currentPage # "main"
  /\ content # EmptyContent
  /\ IsOpen(editingItem)
  /\ pending # << >>
\* ---------------------------------------------------------------- C20
\* C20 as stated: a pending file read has no ordering interaction with Save:
\* in an open dialog with a read pending, the Content Store after "the read
\* ends and its result is rendered, then Save" (Save stores the read's result)
\* is the store after "Save, then the read ends" (Save stores the scratch
\* value, the read's end leaves the store alone), whichever way the read ends.
C20_ReadOrderIsImmaterial ==
  \A i \in 1..Len(pending), ok \in BOOLEAN :
    IsOpen(editingItem) =>
      UpdateContent(content, editingItem.id, ReaderResult(pending[i], ok))
        = UpdateContent(content, editingItem.id, value)

\* C20 amended: a pending file read blocks nothing: while it is pending,
\* toggle is enabled, reset is enabled in edit mode, and typing, Save and
\* Cancel are enabled in an open dialog; a Save taken while the read is pending
\* stores the scratch value as it is and leaves the read pending; the end of a
\* read only queues its result and the render of it changes the scratch value
\* only, never the Content Store, the ActiveEdit or the edit-mode flag; and a
\* Save that follows the render of a read's result in an open dialog stores
\* that result, so the final store does depend on the order.
C20_PendingReadBlocksNothing ==
  /\ [](pending # << >> =>
          /\ ENABLED ToggleEditMode
          /\ (isEditMode => ENABLED ResetContent(TRUE) /\ ENABLED ResetContent(FALSE))
          /\ (IsOpen(editingItem) =>
                /\ ENABLED OnChange(<< >>)
                /\ ENABLED HandleSaveEdit
                /\ ENABLED OnClose))
  /\ []((last.op = "flush" /\ last.id \in {"loaded", "failed"} /\ IsOpen(editingItem)) =>
          \E file \in Files :
            /\ value = ReaderResult(file, last.id = "loaded")
            /\ ENABLED (HandleSaveEdit /\ content'[editingItem.id] = ReaderResult(file, last.id = "loaded")))
  /\ [][/\ (last'.op = "read" =>
              UNCHANGED <<content, editingItem, isEditMode, currentPage, value>>)
        /\ (last'.op = "flush" =>
              UNCHANGED <<content, editingItem, isEditMode, currentPage, pending>>)
        /\ ((last'.op = "save" /\ pending # << >>) =>
              (content'[editingItem.id] = value /\ pending' = pending))]_vars

\* a Save was taken while a read was pending, and what it stored is not what
\* the read will deliver
C20_Witness ==
  /\ last.op = "save" /\ last.pre = "changed"
  /\ pending # << >>
  /\ \A ok \in BOOLEAN : content[last.id] # ReaderResult(pending[1], ok)
\* ---------------------------------------------------------------- C21
\* C21: a Save for key k changes the override of k only: every other key has
\* an override after the Save exactly when it had one before, with the same
\* value.
C21_SaveLeavesOtherKeys ==
  [][last'.op = "save" =>
       \A j \in Keys \ {last'.id} :
         /\ (j \in DOMAIN content') = (j \in DOMAIN content)
         /\ (j \in DOMAIN content => content'[j] = content[j])]_vars

\* a Save wrote one key while a second key holds an empty override and a third
\* key has none
C21_Witness ==
  /\ last.op = "save" /\ last.id \in DOMAIN content
  /\ \E j \in Keys \ {last.id} : j \in DOMAIN content /\ content[j] = << >>
  /\ \E j \in Keys \ {last.id} : SlotOf[j].page = "main" /\ j \notin DOMAIN content

\* ---------------------------------------------------------------- C22
\* C22: every call-site default being a non-empty string, every mounted slot
\* shows a non-empty string in every reachable state; an override that is the
\* empty string counts as no override, the slot shows its default.
C22_SlotsResolveNonEmpty ==
  \A slot \in Slots :
    Mounted(slot) =>
      /\ Truthy(slot.default)
      /\ Truthy(rendered[slot.id])
      /\ ((slot.id \in DOMAIN content /\ content[slot.id] = << >>)
            => rendered[slot.id] = slot.default)

\* an emptied scratch value was saved and the slot shows its default
C22_Witness ==
  \E slot \in Slots :
    /\ Mounted(slot)
    /\ last.op = "save" /\ last.id = slot.id /\ last.pre = "changed"
    /\ slot.id \in DOMAIN content /\ content[slot.id] = << >>
    /\ rendered[slot.id] = slot.default

\* ---------------------------------------------------------------- C23
\* C23: every key in the Content Store was the ActiveEdit's key at a Save
\* since the last confirmed reset; a Cancel and an openEditor (also one that
\* replaces an open edit) write no key, and with no ActiveEdit no Save can run.
C23_StoredKeysWereSaved ==
  /\ [](/\ DOMAIN content \subseteq DOMAIN saved
        /\ (~IsOpen(editingItem) => ~ENABLED HandleSaveEdit))
  /\ [][/\ (last'.op \in {"cancel", "open"} => content' = content)
        /\ (last'.op = "save" =>
              (IsOpen(editingItem) /\ last'.id = editingItem.id
               /\ DOMAIN content' = (DOMAIN content) \cup {editingItem.id}))]_vars

\* an edit with a changed scratch value was cancelled; its key is not in the
\* store, which holds another key
C23_Witness ==
  /\ last.op = "cancel" /\ last.pre = "changed"
  /\ last.id \notin DOMAIN content
  /\ content # EmptyContent

\* ---------------------------------------------------------------- C25
\* C25: a confirmed reset empties the Content Store and changes nothing else:
\* edit-mode flag, ActiveEdit and scratch value stay, and a Save that follows
\* it from the dialog that was open across it leaves a store with that
\* dialog's key only, holding the scratch value.
C25_ResetKeepsSession ==
  [][/\ (last'.op = "resetYes" =>
           /\ content' = EmptyContent
           /\ UNCHANGED <<isEditMode, editingItem, value, pending, currentPage>>)
     /\ ((last.op = "resetYes" /\ last'.op = "save") =>
           content' = [k \in {editingItem.id} |-> value])]_vars

\* a non-empty store was reset while a dialog with a changed scratch value,
\* opened over that store, stays open
C25_Witness ==
  /\ last.op = "resetYes" /\ last.pre = "overridden"
  /\ content = EmptyContent
  /\ IsOpen(editingItem) /\ value # InitialValue(editingItem)
  /\ openStore # EmptyContent
\* ---------------------------------------------------------------- C26
\* C26: a navigation between the five pages changes the current page only:
\* Content Store, edit-mode flag, ActiveEdit and scratch value are unchanged,
\* and the slots of the page arrived at show their values resolved against the
\* unchanged store, so a non-empty override saved on a page is shown whenever
\* its slot is mounted again.
C26_NavigationChangesPageOnly ==
  /\ [](\A slot \in Slots :
          (Mounted(slot) /\ slot.id \in DOMAIN content /\ Truthy(content[slot.id]))
            => rendered[slot.id] = content[slot.id])
  /\ [][last'.op = "nav" =>
          /\ currentPage' \in Pages
          /\ UNCHANGED <<content, isEditMode, editingItem, value, pending>>
          /\ \A slot \in Slots :
               rendered'[slot.id] =
                 IF slot.page = currentPage'
                 THEN Or(Lookup(content, slot.id), slot.default) ELSE Undefined]_vars

\* the profile page was arrived at from another page and its slot shows the
\* override saved there on an earlier visit, with overrides of the main page
\* in the store as well
C26_Witness ==
  /\ last.op = "nav" /\ last.pre = "moved"
  /\ currentPage = "profile"
  /\ "profile_name" \in DOMAIN content
  /\ rendered["profile_name"] = content["profile_name"]
  /\ rendered["profile_name"] # ProfileNameDefault
  /\ \E k \in DOMAIN content : SlotOf[k].page = "main"
\* ---------------------------------------------------------------- C24
\* the scratch value once React has rendered what is queued
Settled == IF queued = << >> THEN value ELSE queued[1]

\* C24 as stated: when a file read has ended while the dialog is open, the
\* scratch value becomes that read's result: as long as a result is queued and
\* the dialog stays open for the same ActiveEdit, the next change of the
\* scratch value is the render of the queue.
C24_CompletedReadBecomesScratch ==
  [][(/\ origin.by \in {"loaded", "failed"} /\ origin.pre = "live"
      /\ IsOpen(editingItem) /\ editingItem' = editingItem /\ value' # value)
       => last'.op = "flush"]_vars

\* C24 amended: when a file read ends while the dialog is open, its result is
\* queued as the scratch value, whatever the scratch value was (typed text
\* included) and whatever other reads are pending, and the render of the queue
\* makes the last queued result the scratch value; so when the read started
\* last has ended first, the end of the read started before it queues the
\* older file's result: the read that ends last wins.  Text typed before the
\* render replaces what is queued.
C24_ReadEndingLastWins ==
  [][/\ ((last'.op = "read" /\ IsOpen(editingItem)) =>
           /\ value' = value
           /\ \E i \in 1..Len(pending) :
                /\ pending' = SubSeq(pending, 1, i - 1) \o SubSeq(pending, i + 1, Len(pending))
                /\ Settled' = ReaderResult(pending[i], last'.id = "loaded")
           /\ ((last.op = "read" /\ last.pos = "newest" /\ Len(pending) = 1) =>
                 /\ Settled' = ReaderResult(pending[1], last'.id = "loaded")
                 /\ pending' = << >>))
     /\ (last'.op = "flush" => (value' = Settled /\ queued' = << >>))
     /\ ((last'.op = "type" /\ queued # << >>) =>
           (queued' = << >> /\ value' \in UrlInputs))]_vars

\* "not-a-url" was typed, a.png was chosen, then b.png, in one dialog; the read
\* of b.png has ended first and queued its result, the read of a.png is still
\* pending and its end will queue a.png's data in its place
C24_Witness ==
  /\ last.op = "read" /\ last.pos = "newest" /\ last.id = "loaded"
  /\ IsOpen(editingItem)
  /\ pending = <<"a.png">>
  /\ value = <<"not-a-url">>
  /\ queued = <<ReaderResult("b.png", TRUE)>>
  /\ ENABLED (OnLoadEnd(1, TRUE) /\ queued' = <<ReaderResult("a.png", TRUE)>>)
====
